---- MODULE Spec2Model ----
(***************************************************************************)
(* Model of js/scenes.js of battle-puno: the gameplay scene (Scene_Game)   *)
(* with its pooled card sprites, staggered draw timers and moveto          *)
(* animations, and the owned-window bookkeeping of Scene_Base.             *)
(*                                                                         *)
(* Time is counted in units of 100 ms.  A pending setTimeout is a record   *)
(* with the remaining delay `rem`; the host fires due timers in the order  *)
(* they were registered.  A moveto animation is a handle in `anims`; its   *)
(* completion runs the callback given to moveto.                           *)
(***************************************************************************)
EXTENDS Integers, Sequences, FiniteSets, TLC

\* ------------------------------------------------------------------ bounds
NumPlayers   == 2   \* seats (GameManager.playerNumber)
NumWindows   == 2   \* window objects a scene is handed
NumCards     == 2   \* logical cards of the rule engine
InitPoolSize == 1   \* sprites made by createCardSpritePool (116 in the source, scaled)
MaxDraws     == 2   \* onCardDraw calls explored
NumSprites   == 1   \* sprites (children that are not windows) of a scene
NumKeys      == 2   \* input keys with a cooldown counter
MaxFade      == 6   \* longest explicit fade duration explored
MaxHand      == 4   \* largest hand laid out on its own
MaxValue     == 19  \* largest card value handed to getCardImage
MaxNumID     == 1   \* largest card.numID handed to getCardImage

MaxPool      == InitPoolSize + 1   \* cap on the pool growth explored
MaxCount     == NumCards + 1       \* cap on animationCount explored
MaxOwned     == NumWindows + 1     \* cap on the length of _windows explored

\* -------------------------------------------------------- program constants
DrawDelay    == 3   \* wt = 300 ms stagger between cards of a batch
RevealDelay  == 20  \* 2000 ms before a revealed card returns to the deck
Unassigned   == -2  \* sp.playerIndex of a pooled, unowned sprite
InPlay       == -1  \* playerIndex of a sprite on its way to / in the discard pile

FadeDefault  == 30   \* duration || 30
Cooldown     == 4    \* heatupButton: _buttonCooldown[kid] = 4
kMOUSE1      == 1    \* Input.keymap.kMOUSE1
NTOUmoment   == 150  \* Scene_Intro.NTOUmoment
fadeDuration == 30   \* Scene_Intro.fadeDuration
ENDmoment    == 500  \* Scene_Intro.ENDmoment
OverlayZ     == 273  \* setZ(0x111)
LoadDelay    == 60   \* frames between allLoaded and processLoadingComplete
LoadDone     == 255  \* loading_timer = 0xff
sw           == 350  \* createHandCanvas: the long side of a hand canvas
sh           == 225  \* createHandCanvas: the short side of a hand canvas

Seats     == 0 .. (NumPlayers - 1)
Cards     == 1 .. NumCards
Wins      == 1 .. NumWindows
Sprites   == (NumWindows + 1) .. (NumWindows + NumSprites)
Objs      == Wins \cup Sprites
Keys      == 1 .. NumKeys

VARIABLES
  spritePool,      \* Scene_Game.spritePool: sequence of sprites
  cardSprite,      \* card.sprite for every card: pool index, 0 = undefined
  hand,            \* players[pid].hand (rule engine), sequence of cards
  lastHand,        \* players[pid].lastHand
  discarded,       \* cards the rule engine has put on the discard pile
  animationCount,  \* Scene_Game.animationCount
  anims,           \* moveto animations in flight, in start order
  timers,          \* pending setTimeout callbacks, in registration order
  fadingTimer,     \* Scene_Base._fadingTimer
  playerPhase,     \* Scene_Game.playerPhase
  discardPile,     \* discardPile.children: the sprites in the pile container, in addChild order
  badCards,        \* cards whose colour getCardImage does not recognise (card data)
  batches          \* history: one record per onCardDraw call

gvars == <<spritePool, cardSprite, hand, lastHand, discarded, animationCount,
           anims, timers, fadingTimer, playerPhase, badCards, batches,
           discardPile>>

VARIABLES
  active,          \* Scene_Base._active
  windows,         \* Scene_Base._windows, the owned windows in push order
  children,        \* the scene's children (windows only), in addChild order
  disposed,        \* windows whose isDisposed() is true
  reported,        \* the last handler called console.error
  wop              \* history: the last Scene_Base handler and its arguments

wvars == <<active, windows, children, disposed, reported, wop>>

VARIABLES
  sceneClass,      \* the class of the scene instance
  fadeSign,        \* Scene_Base._fadeSign: 1 fade-in, -1 fade-out, 0 not set yet
  opacity,         \* _fadingSprite.opacity, an exact fraction <<num, den>>
  fadeLog          \* history of the fade started last: duration, ticks, hook calls, steps

fvars == <<sceneClass, fadeSign, opacity, fadeLog>>

VARIABLES
  childActive,     \* isActive() of every widget
  lastActiveState, \* widget.lastActiveState (undefined counts as FALSE)
  childShown,      \* widget visibility (show() / hide())
  z,               \* widget.z
  oriZ,            \* widget.oriZ (0 = not set)
  overlay,         \* Scene_Base.overlay, 0 = none
  dim,             \* Graphics.dimSprite is rendered
  alwaysActive,    \* widget.alwaysActive, an attribute of the widget
  tickLog,         \* history of the last update(): who received update(), and when
  preRaise         \* history: active flags and z of the widgets before the last raiseOverlay,
                   \* active flags before the last pause

ovars == <<childActive, lastActiveState, childShown, z, oriZ, overlay, dim,
           alwaysActive, tickLog, preRaise>>

VARIABLES
  buttonCooldown,  \* Scene_Base._buttonCooldown, per key
  introTimer,      \* Scene_Intro.timer
  requestFilterUpdate, \* Scene_Intro.requestFilterUpdate
  ready,           \* [gr, sr]: Graphics.isReady(), Sound.isReady()
  allLoaded,       \* Scene_Load.allLoaded
  loading_timer,   \* Scene_Load.loading_timer
  gotoLog,         \* history: the scenes handed to SceneManager.goto, in order
  frameLog         \* history: the last handler, the input of the frame, the frame parity,
                   \* the update() frames of Scene_Load that saw graphics and sound ready

cvars == <<buttonCooldown, introTimer, requestFilterUpdate, ready, allLoaded,
           loading_timer, gotoLog, frameLog>>

VARIABLES
  call,            \* a function of the scene applied on its own: its name and arguments
  ret              \* what that call returned or raised; fn = "none" before the call

pvars == <<call, ret>>

svars == <<fvars, ovars, cvars, pvars>>

vars == <<gvars, wvars, svars>>

\* what the handlers of Scene_Game leave alone
notGame == <<wvars, svars>>

\* what the window handlers of Scene_Base leave alone
notWindows == <<gvars, svars>>

\* ----------------------------------------------------------------- helpers
Min(S) == CHOOSE x \in S : \A y \in S : x <= y

SeqToSet(s) == {s[i] : i \in 1 .. Len(s)}

RemoveAt(s, k) == [i \in 1 .. (Len(s) - 1) |-> IF i < k THEN s[i] ELSE s[i + 1]]

IsIn(x, s) == \E i \in 1 .. Len(s) : s[i] = x

RemoveFirst(s, x) ==
  IF IsIn(x, s) THEN RemoveAt(s, Min({i \in 1 .. Len(s) : s[i] = x})) ELSE s

\* ------------------------------------------------------------ sprite pool
\* createCardSprite: hidden, at the deck anchor, playerIndex -2
createCardSprite ==
  [playerIndex |-> Unassigned, visible |-> FALSE, pos |-> "anchor"]

\* createCardSpritePool
createCardSpritePool == [i \in 1 .. InitPoolSize |-> createCardSprite]

IdleSprites(pool) == {i \in 1 .. Len(pool) : pool[i].playerIndex = Unassigned}

\* getIdleCardSprite that never finds an idle sprite and always grows the pool
getIdleCardSpriteAlwaysGrows(pool) ==
  [pool |-> Append(pool, createCardSprite), sp |-> Len(pool) + 1, grew |-> TRUE]

\* getIdleCardSprite: first sprite with playerIndex == -2, else grow by one
getIdleCardSprite(pool) ==
  IF IdleSprites(pool) # {}
    THEN [pool |-> pool, sp |-> Min(IdleSprites(pool)), grew |-> FALSE]
    ELSE [pool |-> Append(pool, createCardSprite), sp |-> Len(pool) + 1,
          grew |-> TRUE]

\* getCardImage raises "Invalid card color" for an unrecognised colour
getCardImageThrows(card) == card \in badCards

\* ------------------------------------------------------------- animations
InFlight(as, s) == \E i \in 1 .. Len(as) : as[i].sprite = s

\* sprite.moveto(dx, dy, callback): the sprite holds one animation handle;
\* a moveto on a sprite that is still moving replaces its handle, and the
\* callback of the replaced handle is never run.
moveto(as, h) == Append(SelectSeq(as, LAMBDA a : a.sprite # h.sprite), h)

Handle(s, kind, card, pid, show, ar, b) ==
  [sprite |-> s, kind |-> kind, card |-> card, pid |-> pid, show |-> show,
   ar |-> ar, batch |-> b, ord |-> 0]

\* arrangeHandCards(index): the loop over players[index].hand, from card i on.
\* st = [pool, anims, count, err]; a card without sprite raises a TypeError
\* and ends the call with the effects on the earlier cards in place.
RECURSIVE arrangeLoop(_, _, _, _, _)
arrangeLoop(st, cs, pid, h, i) ==
  IF i > Len(h) THEN st
  ELSE IF cs[h[i]] = 0 THEN [st EXCEPT !.err = TRUE]
  ELSE LET s == cs[h[i]]
           nxt == [pool  |-> [st.pool EXCEPT ![s].pos = "handCentre"],
                   anims |-> moveto(st.anims,
                                    Handle(s, "arrange", h[i], pid, FALSE, FALSE, 0)),
                   count |-> st.count + 1,
                   err   |-> FALSE]
       IN  arrangeLoop(nxt, cs, pid, h, i + 1)

\* arrangeHandCards(index): st' plus lastHand (set only when the loop ends)
arrangeHandCards(pool, as, count, cs, pid, h) ==
  arrangeLoop([pool |-> pool, anims |-> as, count |-> count, err |-> FALSE],
              cs, pid, h, 1)

\* the sprites arrangeHandCards hands to hcs.addChild: those of the cards
\* before the first card that has no sprite
Arranged(cs, h) ==
  {cs[h[i]] : i \in {j \in 1 .. Len(h) : \A m \in 1 .. j : cs[h[m]] # 0}}

\* container.addChild(sprite) takes the sprite out of the container it was
\* in: the children of the discard pile without the sprites of S
leavePile(pile, S) == SelectSeq(pile, LAMBDA s : s \notin S)

\* -------------------------------------------------------------------- Init
\* Scene_Base constructor, and the widgets before the scene has touched them
SceneFields ==
  /\ fadeSign = 0
  /\ opacity = <<0, 1>>
  /\ fadeLog = [dur |-> 0, ticks |-> 0, hooks |-> 0, hookAt |-> 0, steps |-> {}]
  /\ lastActiveState = [o \in Objs |-> FALSE]
  /\ childShown = [o \in Objs |-> FALSE]
  /\ z = [o \in Objs |-> o]
  /\ oriZ = [o \in Objs |-> 0]
  /\ overlay = 0
  /\ dim = FALSE
  /\ tickLog = [seen |-> 0, updated |-> <<>>]
  /\ preRaise = [active |-> [o \in Objs |-> FALSE], z |-> [o \in Objs |-> 0]]
  /\ buttonCooldown = [k \in Keys |-> 0]
  /\ introTimer = 0
  /\ requestFilterUpdate = FALSE
  /\ ready = [gr |-> FALSE, sr |-> FALSE]
  /\ allLoaded = FALSE
  /\ loading_timer = 0
  /\ gotoLog = <<>>
  /\ frameLog = [op |-> "new", key |-> 0, click |-> FALSE, phase |-> 0,
                 since |-> 0]

\* no function is applied on its own
NoCall ==
  /\ call = [fn |-> "none"]
  /\ ret = [fn |-> "none"]

\* Scene_Game constructor and createCardSpritePool; the rule engine's tables
GameFields ==
  /\ spritePool = createCardSpritePool
  /\ cardSprite = [c \in Cards |-> 0]
  /\ hand = [p \in Seats |-> <<>>]
  /\ lastHand = [p \in Seats |-> <<>>]
  /\ discarded = {}
  /\ animationCount = 0
  /\ anims = <<>>
  /\ timers = <<>>
  /\ fadingTimer = 0
  /\ playerPhase = FALSE
  /\ badCards = {}
  /\ discardPile = <<>>
  /\ batches = <<>>

\* Scene_Base constructor: the owned windows
WindowFields ==
  /\ active = FALSE
  /\ windows = <<>>
  /\ disposed = {}
  /\ reported = FALSE
  /\ wop = [op |-> "new", win |-> 0, forced |-> FALSE]

\* a new Scene_Game, no child yet, every widget inactive
Init ==
  /\ sceneClass = "Scene_Game"
  /\ GameFields
  /\ WindowFields
  /\ SceneFields
  /\ NoCall
  /\ children = <<>>
  /\ childActive = [o \in Objs |-> FALSE]
  /\ alwaysActive = [o \in Objs |-> FALSE]

\* a new Scene_Base on which no child has been rendered
InitFade ==
  /\ sceneClass = "Scene_Base"
  /\ GameFields
  /\ WindowFields
  /\ SceneFields
  /\ NoCall
  /\ children = <<>>
  /\ childActive = [o \in Objs |-> FALSE]
  /\ alwaysActive = [o \in Objs |-> FALSE]

\* ------------------------------------------------------- rule engine view
InHands == UNION {SeqToSet(hand[p]) : p \in Seats}

Queued == {timers[i].card : i \in {j \in 1 .. Len(timers) : timers[j].kind = "draw"}}

\* cards the rule engine can still draw or play from the deck
Deck == Cards \ (InHands \cup discarded \cup Queued)

\* the non-empty sequences of distinct cards of S: the `cards` of one onCardDraw
RECURSIVE Arrangements(_)
Arrangements(S) ==
  IF S = {} THEN {<<>>}
  ELSE {<<>>} \cup UNION {{<<c>> \o q : q \in Arrangements(S \ {c})} : c \in S}

BatchesOf == Arrangements(Deck) \ {<<>>}

CanGrow(pool) == IdleSprites(pool) # {} \/ Len(pool) < MaxPool

\* ------------------------------------------------------------ onCardDraw
\* onCardDraw that hands every card to the host with no delay
onCardDrawAtOnce(pid, cards, show) ==
  /\ Len(batches) < MaxDraws
  /\ LET b == Len(batches) + 1
         new == [i \in 1 .. Len(cards) |->
                   [kind |-> "draw", pid |-> pid, card |-> cards[i],
                    show |-> show, ar |-> (i = Len(cards)), ord |-> i - 1,
                    rem |-> 0, batch |-> b]]
     IN  /\ timers' = timers \o new
         /\ batches' = Append(batches,
                              [pid |-> pid, n |-> Len(cards), show |-> show,
                               arrived |-> 0, relayouts |-> 0, early |-> FALSE,
                               age |-> 0, lastOrd |-> -1])
         /\ hand' = IF show THEN hand ELSE [hand EXCEPT ![pid] = @ \o cards]
  /\ UNCHANGED <<spritePool, cardSprite, lastHand, discarded, animationCount,
                 anims, fadingTimer, playerPhase, badCards, discardPile, notGame>>

\* onCardDraw(pid, cards, show): one timer per card, card i after wt * i
onCardDraw(pid, cards, show) ==
  /\ Len(batches) < MaxDraws
  /\ LET b == Len(batches) + 1
         new == [i \in 1 .. Len(cards) |->
                   [kind |-> "draw", pid |-> pid, card |-> cards[i],
                    show |-> show, ar |-> (i = Len(cards)), ord |-> i - 1,
                    rem |-> DrawDelay * (i - 1), batch |-> b]]
     IN  /\ timers' = timers \o new
         /\ batches' = Append(batches,
                              [pid |-> pid, n |-> Len(cards), show |-> show,
                               arrived |-> 0, relayouts |-> 0, early |-> FALSE,
                               age |-> 0, lastOrd |-> -1])
         /\ hand' = IF show THEN hand ELSE [hand EXCEPT ![pid] = @ \o cards]
  /\ UNCHANGED <<spritePool, cardSprite, lastHand, discarded, animationCount,
                 anims, fadingTimer, playerPhase, badCards, discardPile, notGame>>

CardDraw == \E pid \in Seats, show \in BOOLEAN : \E cards \in BatchesOf :
              onCardDraw(pid, cards, show)

\* ---------------------------------------------------------------- timers
FirstDue == Min({i \in 1 .. Len(timers) : timers[i].rem = 0})

SomeDue == \E i \in 1 .. Len(timers) : timers[i].rem = 0

NextDue == Min({timers[i].rem : i \in 1 .. Len(timers)})

\* batch b has a card that is not dispatched yet
Waiting(b) ==
  \E i \in 1 .. Len(timers) : timers[i].kind = "draw" /\ timers[i].batch = b

\* The host clock advances while no timer is due: by one stagger, or up to the
\* next due timer when that is nearer (a timer never fires before its delay,
\* and due timers fire before the clock moves on).
AdvanceTime ==
  /\ timers # <<>>
  /\ ~SomeDue
  /\ LET d == IF NextDue < DrawDelay THEN NextDue ELSE DrawDelay
     IN  /\ timers' = [i \in 1 .. Len(timers) |-> [timers[i] EXCEPT !.rem = @ - d]]
         /\ batches' = [b \in 1 .. Len(batches) |->
                          IF Waiting(b) THEN [batches[b] EXCEPT !.age = @ + d]
                          ELSE batches[b]]
  /\ UNCHANGED <<spritePool, cardSprite, hand, lastHand, discarded,
                 animationCount, anims, fadingTimer, playerPhase, badCards, discardPile,
                 notGame>>

\* processCardDrawAnimation(pid, card, show, ar, ord), run by a draw timer
processCardDrawAnimation ==
  /\ SomeDue
  /\ timers[FirstDue].kind = "draw"
  /\ CanGrow(spritePool)
  /\ animationCount < MaxCount
  /\ LET t == timers[FirstDue]
         g == getIdleCardSprite(spritePool)
     IN  /\ animationCount' = animationCount + 1
         /\ spritePool' = [g.pool EXCEPT ![g.sp] =
                             [playerIndex |-> t.pid, visible |-> TRUE,
                              pos |-> "deckSide"]]
         /\ cardSprite' = [cardSprite EXCEPT ![t.card] = g.sp]
         /\ anims' = moveto(anims, [Handle(g.sp, "draw", t.card, t.pid, t.show,
                                           t.ar, t.batch) EXCEPT !.ord = t.ord])
         /\ timers' = RemoveAt(timers, FirstDue)
  /\ UNCHANGED <<hand, lastHand, discarded, fadingTimer, playerPhase, badCards, discardPile, batches, notGame>>

\* sendCardToDeck(pid, card), run by the 2000 ms timer of a revealed card
sendCardToDeck ==
  /\ SomeDue
  /\ timers[FirstDue].kind = "send"
  /\ LET t == timers[FirstDue]
         s == cardSprite[t.card]
     IN  /\ spritePool' = [spritePool EXCEPT ![s] =
                             [playerIndex |-> Unassigned, visible |-> FALSE,
                              pos |-> "anchor"]]
         /\ timers' = RemoveAt(timers, FirstDue)
  /\ UNCHANGED <<cardSprite, hand, lastHand, discarded, animationCount, anims,
                 fadingTimer, playerPhase, badCards, discardPile, batches, notGame>>

\* ------------------------------------------------- animation completions
\* position a moveto leaves the sprite at
Dest(kind) == CASE kind = "draw"    -> "handCentre"
                [] kind = "arrange" -> "handSlot"
                [] OTHER            -> "pileGlobal"

\* The draw animations of one seat run the same path (deck to the centre of
\* that seat's hand canvas), so they arrive in the order they were started.
CanComplete(k) ==
  \A j \in 1 .. (k - 1) :
     ~(anims[j].kind = "draw" /\ anims[k].kind = "draw" /\ anims[j].pid = anims[k].pid)

\* fallback of processCardDrawAnimation: the callback of a draw animation
DrawArrived(k) ==
  LET h    == anims[k]
      rest == RemoveAt(anims, k)
      pool == [spritePool EXCEPT ![h.sprite].pos = Dest("draw")]
      b    == batches[h.batch]
      re   == ~getCardImageThrows(h.card) /\ ~h.show /\ h.ar
      st   == arrangeHandCards(pool, rest, animationCount - 1, cardSprite,
                               h.pid, hand[h.pid])
  IN  /\ h.kind = "draw"
      /\ IF getCardImageThrows(h.card)
           THEN /\ spritePool' = pool
                /\ anims' = rest
                /\ UNCHANGED <<animationCount, timers, lastHand, discardPile>>
           ELSE IF h.show
           THEN /\ spritePool' = pool
                /\ anims' = rest
                /\ animationCount' = animationCount - 1
                /\ timers' = Append(timers,
                                    [kind |-> "send", pid |-> h.pid, card |-> h.card,
                                     show |-> TRUE, ar |-> h.ar, ord |-> 0,
                                     rem |-> RevealDelay, batch |-> h.batch])
                /\ UNCHANGED <<lastHand, discardPile>>
           ELSE IF h.ar
           THEN /\ st.count <= MaxCount
                /\ spritePool' = st.pool
                /\ anims' = st.anims
                /\ animationCount' = st.count
                /\ lastHand' = IF st.err THEN lastHand
                               ELSE [lastHand EXCEPT ![h.pid] = hand[h.pid]]
                /\ discardPile' = leavePile(discardPile,
                                            Arranged(cardSprite, hand[h.pid]))
                /\ UNCHANGED timers
           ELSE /\ spritePool' = pool
                /\ anims' = rest
                /\ animationCount' = animationCount - 1
                /\ UNCHANGED <<timers, lastHand, discardPile>>
      /\ batches' = [batches EXCEPT ![h.batch] =
                       [@ EXCEPT !.arrived = @ + 1,
                                 !.lastOrd = h.ord,
                                 !.relayouts = IF re THEN @ + 1 ELSE @,
                                 !.early = @ \/ (re /\ b.arrived + 1 < b.n)]]
      /\ UNCHANGED <<cardSprite, hand, discarded, fadingTimer, playerPhase, badCards, notGame>>

\* callback of the moveto started by arrangeHandCards
ArrangeArrived(k) ==
  LET h == anims[k]
  IN  /\ h.kind = "arrange"
      /\ spritePool' = [spritePool EXCEPT ![h.sprite].pos = Dest("arrange")]
      /\ anims' = RemoveAt(anims, k)
      /\ animationCount' = animationCount - 1
      /\ UNCHANGED <<cardSprite, hand, lastHand, discarded, timers, fadingTimer,
                     playerPhase, badCards, discardPile, batches, notGame>>

\* callback of the moveto started by addDiscardCard: the sprite the card
\* holds at that moment is put into the discard pile container
DiscardArrived(k) ==
  LET h == anims[k]
      pool == [spritePool EXCEPT ![h.sprite].pos = Dest("discard")]
  IN  /\ h.kind = "discard"
      /\ spritePool' = [pool EXCEPT ![cardSprite[h.card]].pos = "pile"]
      /\ discardPile' = Append(leavePile(discardPile, {cardSprite[h.card]}),
                               cardSprite[h.card])
      /\ anims' = RemoveAt(anims, k)
      /\ animationCount' = animationCount - 1
      /\ UNCHANGED <<cardSprite, hand, lastHand, discarded, timers, fadingTimer,
                     playerPhase, badCards, batches, notGame>>

AnimationComplete ==
  \E k \in 1 .. Len(anims) :
     /\ CanComplete(k)
     /\ (DrawArrived(k) \/ ArrangeArrived(k) \/ DiscardArrived(k))

\* ------------------------------------------------------------ onCardPlay
\* addDiscardCard(card, pid) on sprite s of the pool
addDiscardCard(pool, s, card, pid) ==
  /\ spritePool' = [pool EXCEPT ![s].visible = TRUE]
  /\ animationCount' = animationCount + 1
  /\ anims' = moveto(anims, Handle(s, "discard", card, pid, FALSE, FALSE, 0))

\* onCardPlay(pid, card, effects) with pid >= 0: the card leaves a hand.  The
\* rule engine plays a card that is shown in the hand (card.sprite is set).
PlayFromHand(pid, card) ==
  LET s == cardSprite[card]
  IN  /\ IsIn(card, hand[pid])
      /\ s # 0
      /\ animationCount < MaxCount
      /\ hand' = [hand EXCEPT ![pid] = RemoveFirst(@, card)]
      /\ discarded' = discarded \cup {card}
      /\ addDiscardCard([spritePool EXCEPT ![s] =
                           [@ EXCEPT !.playerIndex = InPlay, !.pos = "global"]],
                        s, card, pid)
      /\ UNCHANGED <<cardSprite, lastHand, timers, fadingTimer, playerPhase,
                     badCards, discardPile, batches, notGame>>

\* onCardPlay(-1, card, effects): the card comes from the deck
PlayFromDeck(card) ==
  LET g  == getIdleCardSprite(spritePool)
      p1 == [g.pool EXCEPT ![g.sp].pos = "anchor"]
  IN  /\ card \in Deck
      /\ CanGrow(spritePool)
      /\ animationCount < MaxCount
      /\ discarded' = discarded \cup {card}
      /\ IF getCardImageThrows(card)
           THEN /\ spritePool' = p1
                /\ UNCHANGED <<cardSprite, animationCount, anims>>
           ELSE /\ cardSprite' = [cardSprite EXCEPT ![card] = g.sp]
                /\ addDiscardCard([p1 EXCEPT ![g.sp].playerIndex = InPlay],
                                  g.sp, card, -1)
      /\ UNCHANGED <<hand, lastHand, timers, fadingTimer, playerPhase, badCards, discardPile, batches, notGame>>

onCardPlay ==
  \/ \E pid \in Seats, card \in Cards : PlayFromHand(pid, card)
  \/ \E card \in Cards : PlayFromDeck(card)

\* ------------------------------------------------------ arrangeHandCards
\* arrangeHandCards(index) called by the rule engine, for a hand that is shown
ArrangeHand ==
  \E pid \in Seats :
    LET st == arrangeHandCards(spritePool, anims, animationCount, cardSprite,
                               pid, hand[pid])
    IN  /\ hand[pid] # <<>>
        /\ \A i \in 1 .. Len(hand[pid]) : cardSprite[hand[pid][i]] # 0
        /\ st.count <= MaxCount
        /\ spritePool' = st.pool
        /\ anims' = st.anims
        /\ animationCount' = st.count
        /\ lastHand' = IF st.err THEN lastHand
                       ELSE [lastHand EXCEPT ![pid] = hand[pid]]
        /\ discardPile' = leavePile(discardPile, Arranged(cardSprite, hand[pid]))
        /\ UNCHANGED <<cardSprite, hand, discarded, timers, fadingTimer,
                       playerPhase, badCards, batches, notGame>>

\* ------------------------------------------------------------------ Next
NextGame ==
  \/ CardDraw
  \/ AdvanceTime
  \/ processCardDrawAnimation
  \/ sendCardToDeck
  \/ AnimationComplete
  \/ onCardPlay
  \/ ArrangeHand

SpecGame == Init /\ [][NextGame]_vars

\* ------------------------------------------------ exact fractions
\* A fraction is <<num, den>> with den > 0, in lowest terms.
RECURSIVE GCD(_, _)
GCD(a, b) == IF b = 0 THEN a ELSE GCD(b, a % b)

Abs(x) == IF x < 0 THEN -x ELSE x

Frac(n, d) ==
  IF n = 0 THEN <<0, 1>>
  ELSE LET g == GCD(Abs(n), d) IN <<n \div g, d \div g>>

FracAdd(a, b) == Frac(a[1] * b[2] + b[1] * a[2], a[2] * b[2])

FracSub(a, b) == Frac(a[1] * b[2] - b[1] * a[2], a[2] * b[2])

FracDiv(a, k) == Frac(a[1], a[2] * k)

FracLeq(a, b) == a[1] * b[2] <= b[1] * a[2]

Zero == <<0, 1>>

One == <<1, 1>>

\* ------------------------------------------------- Scene_Base: the fade
gameRest == <<spritePool, cardSprite, hand, lastHand, discarded, animationCount,
              anims, timers, badCards, batches,
              discardPile>>

\* what the fade handlers leave alone
notFade == <<gameRest, playerPhase, wvars, sceneClass, ovars, cvars, pvars>>

\* the fade state as one value
FadeNow == [sign |-> fadeSign, timer |-> fadingTimer, opa |-> opacity, log |-> fadeLog]

SetFade(f) ==
  /\ fadeSign' = f.sign
  /\ fadingTimer' = f.timer
  /\ opacity' = f.opa
  /\ fadeLog' = f.log

\* duration || 30: 0 stands for a missing (or zero) argument
DurationOr30(duration) == IF duration = 0 THEN FadeDefault ELSE duration

NewFadeLog(d) == [dur |-> d, ticks |-> 0, hooks |-> 0, hookAt |-> 0, steps |-> {}]

\* startFadeIn(duration): the fade state it leaves
startFadeInOf(duration) ==
  [sign |-> 1, timer |-> DurationOr30(duration), opa |-> One,
   log |-> NewFadeLog(DurationOr30(duration))]

\* startFadeOut(duration): the fade state it leaves
startFadeOutOf(duration) ==
  [sign |-> -1, timer |-> DurationOr30(duration), opa |-> Zero,
   log |-> NewFadeLog(DurationOr30(duration))]

\* the tick counter of the history stops one past the duration
TickAfter(log) == IF log.ticks > log.dur THEN log.ticks ELSE log.ticks + 1

\* updateFading that divides the remaining distance by one frame too many
updateFadingShort(f) ==
  IF f.timer <= 0
    THEN [f EXCEPT !.log.ticks = TickAfter(f.log)]
    ELSE LET d   == f.timer
             opa == f.opa
             new == IF f.sign > 0
                      THEN FracSub(opa, FracDiv(opa, d + 1))
                      ELSE FracAdd(opa, FracDiv(FracSub(One, opa), d + 1))
             t   == TickAfter(f.log)
             done == d - 1 <= 0
         IN  [sign  |-> f.sign,
              timer |-> IF done THEN 0 ELSE d - 1,
              opa   |-> new,
              log   |-> [dur    |-> f.log.dur,
                         ticks  |-> t,
                         hooks  |-> IF done THEN f.log.hooks + 1 ELSE f.log.hooks,
                         hookAt |-> IF done THEN t ELSE f.log.hookAt,
                         steps  |-> f.log.steps \cup {FracSub(new, opa)}]]

\* updateFading that steps by a fixed fraction of the remaining distance
updateFadingGeometric(f) ==
  IF f.timer <= 0
    THEN [f EXCEPT !.log.ticks = TickAfter(f.log)]
    ELSE LET d   == f.timer
             opa == f.opa
             tgt == IF f.sign > 0 THEN Zero ELSE One
             new == IF d = 1 THEN tgt
                    ELSE FracAdd(opa, FracDiv(FracSub(tgt, opa), 2))
             t   == TickAfter(f.log)
             done == d - 1 <= 0
         IN  [sign  |-> f.sign,
              timer |-> IF done THEN 0 ELSE d - 1,
              opa   |-> new,
              log   |-> [dur    |-> f.log.dur,
                         ticks  |-> t,
                         hooks  |-> IF done THEN f.log.hooks + 1 ELSE f.log.hooks,
                         hookAt |-> IF done THEN t ELSE f.log.hookAt,
                         steps  |-> f.log.steps \cup {FracSub(new, opa)}]]

\* updateFading() on fade state f, with onFadeComplete() when the timer runs out
updateFadingOf(f) ==
  IF f.timer <= 0
    THEN [f EXCEPT !.log.ticks = TickAfter(f.log)]
    ELSE LET d   == f.timer
             opa == f.opa
             new == IF f.sign > 0
                      THEN FracSub(opa, FracDiv(opa, d))
                      ELSE FracAdd(opa, FracDiv(FracSub(One, opa), d))
             t   == TickAfter(f.log)
             done == d - 1 <= 0
         IN  [sign  |-> f.sign,
              timer |-> IF done THEN 0 ELSE d - 1,
              opa   |-> new,
              log   |-> [dur    |-> f.log.dur,
                         ticks  |-> t,
                         hooks  |-> IF done THEN f.log.hooks + 1 ELSE f.log.hooks,
                         hookAt |-> IF done THEN t ELSE f.log.hookAt,
                         steps  |-> f.log.steps \cup {FracSub(new, opa)}]]

\* startFadeIn(duration)
startFadeIn(duration) ==
  /\ SetFade(startFadeInOf(duration))
  /\ UNCHANGED notFade

\* startFadeOut(duration)
startFadeOut(duration) ==
  /\ SetFade(startFadeOutOf(duration))
  /\ UNCHANGED notFade

StartFade ==
  \E duration \in 0 .. MaxFade :
     startFadeIn(duration) \/ startFadeOut(duration)

\* ----------------------------------------------- Scene_Base: the children
\* child.isWindow
isWindow(c) == c \in Wins

\* child.update is defined
hasUpdate(c) == c \in Objs

\* updateChildren(): the children that receive update(), in order
updateChildren ==
  SelectSeq(children,
            LAMBDA c : hasUpdate(c) /\ (overlay = 0 \/ ~isWindow(c) \/ c = overlay))

\* deactivateChildren(): the active flags it leaves
deactivateChildren ==
  [o \in Objs |-> IF IsIn(o, children) THEN FALSE ELSE childActive[o]]

\* Scene_Base.update(): updateFading(), then updateChildren()
update ==
  LET f == updateFadingOf(FadeNow)
  IN  /\ sceneClass = "Scene_Base"
      /\ SetFade(f)
      /\ tickLog' = [seen |-> f.timer, updated |-> updateChildren]
      /\ wop' = [op |-> "update", win |-> 0, forced |-> FALSE]
      /\ preRaise' = [active |-> [o \in Objs |-> FALSE], z |-> [o \in Objs |-> 0]]
      /\ UNCHANGED <<gameRest, playerPhase, sceneClass, cvars, pvars,
                     active, windows, children, disposed, reported,
                     childActive, lastActiveState, childShown, z, oriZ,
                     overlay, dim, alwaysActive>>

NextFade ==
  \/ StartFade
  \/ update

SpecFade == InitFade /\ [][NextFade]_vars

\* ------------------------------------------------------- busy predicate
\* isBusy that looks at the fade direction instead of the timer
isBusyWhileSignSet == fadeSign # 0

\* Scene_Base.isBusy
isBusyBase == fadingTimer > 0

\* Scene_Game.isAnimationPlaying
isAnimationPlaying == animationCount # 0

\* Scene_Game.isPlayerThinking
isPlayerThinking == playerPhase

\* isBusy that forgets the animation counter
isBusyWithoutAnimations == isBusyBase \/ isPlayerThinking

\* Scene_Game.isBusy
isBusy == isBusyBase \/ isAnimationPlaying \/ isPlayerThinking

\* processUserTurn(pid)
processUserTurn ==
  /\ playerPhase' = TRUE
  /\ UNCHANGED <<gameRest, fadingTimer, notGame>>

\* processUserTurnEnd()
processUserTurnEnd ==
  /\ playerPhase' = FALSE
  /\ UNCHANGED <<gameRest, fadingTimer, notGame>>

\* preTerminate without deactivateChildren()
preTerminateFadeOnly ==
  /\ SetFade(startFadeOutOf(0))
  /\ wop' = [op |-> "preTerminate", win |-> 0, forced |-> FALSE]
  /\ preRaise' = [active |-> [o \in Objs |-> FALSE], z |-> [o \in Objs |-> 0]]
  /\ UNCHANGED <<childActive, gameRest, playerPhase, sceneClass, cvars, pvars,
                 active, windows, children, disposed, reported,
                 lastActiveState, childShown, z, oriZ, overlay, dim,
                 alwaysActive, tickLog>>

\* preTerminate(): startFadeOut() with the default duration, deactivateChildren()
preTerminate ==
  /\ SetFade(startFadeOutOf(0))
  /\ childActive' = deactivateChildren
  /\ wop' = [op |-> "preTerminate", win |-> 0, forced |-> FALSE]
  /\ preRaise' = [active |-> [o \in Objs |-> FALSE], z |-> [o \in Objs |-> 0]]
  /\ UNCHANGED <<gameRest, playerPhase, sceneClass, cvars, pvars,
                 active, windows, children, disposed, reported,
                 lastActiveState, childShown, z, oriZ, overlay, dim,
                 alwaysActive, tickLog>>

\* updateFading(): one frame of the fade; onFadeComplete at the end
updateFading ==
  /\ fadingTimer > 0
  /\ SetFade(updateFadingOf(FadeNow))
  /\ UNCHANGED notFade

\* onCardDraw of a single card that joins the hand
CardDrawOne == \E pid \in Seats : \E c \in Deck : onCardDraw(pid, <<c>>, FALSE)

NextBusy ==
  \/ CardDrawOne
  \/ processCardDrawAnimation
  \/ AnimationComplete
  \/ onCardPlay
  \/ ArrangeHand
  \/ processUserTurn
  \/ processUserTurnEnd
  \/ preTerminate
  \/ updateFading

SpecBusy == Init /\ [][NextBusy]_vars

\* ======================================================================
\* Properties of Scene_Game
\* ======================================================================

\* C1: animationCount equals the number of moveto animations in flight and
\* is never negative (one increment per start, one decrement per completion).
C1_CounterMatchesInFlight ==
  /\ animationCount = Len(anims)
  /\ animationCount >= 0

Idle == animationCount = 0 /\ fadingTimer = 0 /\ ~playerPhase

OnlyDiscardInFlight ==
  /\ animationCount = 1 /\ fadingTimer = 0 /\ ~playerPhase
  /\ Len(anims) = 1 /\ anims[1].kind = "discard"

\* C2: isBusy() is true exactly when the fade timer is nonzero, or the
\* animation counter is not 0, or playerPhase is set; an onCardPlay from an
\* idle scene makes the counter 1 and the scene busy, and the completion of
\* that animation makes the counter 0 and the scene not busy.
C2_BusyReflectsAnimations ==
  /\ [](isBusy <=> (fadingTimer # 0 \/ animationCount # 0 \/ playerPhase))
  /\ [][(Idle /\ discarded' # discarded) =>
          (animationCount' = 1 /\ isBusy')]_vars
  /\ [][(OnlyDiscardInFlight /\ anims' = <<>>) =>
          (animationCount' = 0 /\ ~isBusy')]_vars

\* a played card has reached the discard pile and the scene is idle again
C2_Witness == Idle /\ \E s \in 1 .. Len(spritePool) : spritePool[s].pos = "pile"

BatchLive(b) ==
  \/ \E i \in 1 .. Len(timers) : timers[i].kind = "draw" /\ timers[i].batch = b
  \/ \E i \in 1 .. Len(anims) : anims[i].kind = "draw" /\ anims[i].batch = b

\* C3: for a non-reveal onCardDraw batch the hand re-layout is triggered
\* exactly once, by the arrival of the last card and after the arrival of
\* every other card of the batch.
C3_RelayoutOncePerBatch ==
  \A b \in 1 .. Len(batches) :
     ~batches[b].show =>
        /\ batches[b].relayouts <= 1
        /\ ~batches[b].early
        /\ ~BatchLive(b) => batches[b].relayouts = 1

\* C4: a sprite is unassigned if and only if it has no animation in flight
\* and is hidden at the deck anchor.
C4_UnassignedIffParked ==
  \A s \in 1 .. Len(spritePool) :
     (spritePool[s].playerIndex = Unassigned) <=>
        (~InFlight(anims, s) /\ ~spritePool[s].visible /\ spritePool[s].pos = "anchor")

\* C5: no two distinct cards hold the same sprite.
C5_SpriteNotShared ==
  \A c1 \in Cards, c2 \in Cards :
     (c1 # c2 /\ cardSprite[c1] # 0) => cardSprite[c1] # cardSprite[c2]

\* C6: an acquisition takes the lowest-index unassigned sprite and leaves the
\* pool length unchanged, or, when no sprite is unassigned, appends one sprite
\* and takes it; the pool never shrinks.
C6_AcquireLowestOrGrow ==
  [][/\ Len(spritePool') >= Len(spritePool)
     /\ Len(spritePool') <= Len(spritePool) + 1
     /\ (Len(spritePool') = Len(spritePool) + 1) => (IdleSprites(spritePool) = {})
     /\ \A c \in Cards :
           (cardSprite'[c] # cardSprite[c]) =>
              IF IdleSprites(spritePool) # {}
                THEN /\ cardSprite'[c] = Min(IdleSprites(spritePool))
                     /\ Len(spritePool') = Len(spritePool)
                ELSE /\ cardSprite'[c] = Len(spritePool) + 1
                     /\ Len(spritePool') = Len(spritePool) + 1]_vars

\* the pool has grown, a card holds the appended sprite, and an earlier
\* sprite has been released again
C6_Witness ==
  /\ Len(spritePool) = InitPoolSize + 1
  /\ \E c \in Cards : cardSprite[c] = InitPoolSize + 1
  /\ IdleSprites(spritePool) # {}

\* C7: sendCardToDeck sets a sprite to unassigned only when no moveto
\* animation of that sprite is in flight.
C7_ReleaseOnlyWhenSettled ==
  [][\A s \in 1 .. Len(spritePool) :
        (spritePool[s].playerIndex # Unassigned
           /\ spritePool'[s].playerIndex = Unassigned) =>
        ~InFlight(anims, s)]_vars

\* ======================================================================
\* Scene_Base: the owned windows
\* ======================================================================

\* Array.prototype.indexOf, 1-based; 0 stands for the -1 of "not found"
indexOf(ws, w) ==
  IF IsIn(w, ws) THEN Min({i \in 1 .. Len(ws) : ws[i] = w}) ELSE 0

\* win.clear(true): the window releases its resources and is disposed
clear(disp, w) == disp \cup {w}

\* addChild: a child that is already in the container moves to the end
addChild(ch, w) == Append(SelectSeq(ch, LAMBDA x : x # w), w)

\* disposeWindowAt without the index check: a missing window is taken for the
\* last one (splice(-1, 1)) and nothing is reported
disposeWindowAtUnguarded(ws, disp, index) ==
  IF ws = <<>> THEN [windows |-> ws, disposed |-> disp, reported |-> FALSE]
  ELSE LET k == IF index = 0 THEN Len(ws) ELSE index
       IN  [windows |-> RemoveAt(ws, k), disposed |-> clear(disp, ws[k]),
            reported |-> FALSE]

\* disposeWindowAt(index): st = [windows, disposed, reported]
disposeWindowAt(ws, disp, index) ==
  IF index = 0
    THEN [windows |-> ws, disposed |-> disp, reported |-> TRUE]
    ELSE [windows |-> RemoveAt(ws, index), disposed |-> clear(disp, ws[index]),
          reported |-> FALSE]

\* disposeAllWindows: for(i = 0; i < _windows.length; ++i) disposeWindowAt(i),
\* on the list that disposeWindowAt shortens; then _windows = []
RECURSIVE disposeAllLoop(_, _)
disposeAllLoop(st, i) ==
  IF i > Len(st.windows) THEN st
  ELSE LET d == disposeWindowAt(st.windows, st.disposed, i)
       IN  disposeAllLoop([d EXCEPT !.reported = st.reported \/ d.reported], i + 1)

disposeAllWindows(ws, disp) ==
  [disposeAllLoop([windows |-> ws, disposed |-> disp, reported |-> FALSE], 1)
     EXCEPT !.windows = <<>>]

\* start()
start ==
  /\ active' = TRUE
  /\ reported' = FALSE
  /\ wop' = [op |-> "start", win |-> 0, forced |-> FALSE]
  /\ UNCHANGED <<windows, children, disposed, notWindows>>

\* stop()
stop ==
  /\ active' = FALSE
  /\ reported' = FALSE
  /\ wop' = [op |-> "stop", win |-> 0, forced |-> FALSE]
  /\ UNCHANGED <<windows, children, disposed, notWindows>>

\* addWindow without the check of the active flag
addWindowToStoppedScene(w, forced) ==
  /\ Len(windows) < MaxOwned
  /\ wop' = [op |-> "addWindow", win |-> w, forced |-> forced]
  /\ IF w \in disposed
       THEN /\ reported' = TRUE
            /\ UNCHANGED <<windows, children>>
       ELSE /\ reported' = FALSE
            /\ windows' = Append(windows, w)
            /\ children' = addChild(children, w)
  /\ UNCHANGED <<active, disposed, notWindows>>

\* addWindow(win, forced = false)
addWindow(w, forced) ==
  /\ Len(windows) < MaxOwned
  /\ wop' = [op |-> "addWindow", win |-> w, forced |-> forced]
  /\ IF ~active /\ ~forced
       THEN /\ reported' = TRUE
            /\ UNCHANGED <<windows, children>>
       ELSE IF w \in disposed
       THEN /\ reported' = TRUE
            /\ UNCHANGED <<windows, children>>
       ELSE /\ reported' = FALSE
            /\ windows' = Append(windows, w)
            /\ children' = addChild(children, w)
  /\ UNCHANGED <<active, disposed, notWindows>>

AddWindow == \E w \in Wins, forced \in BOOLEAN : addWindow(w, forced)

\* removeWindow(win)
removeWindow(w) ==
  LET d == disposeWindowAt(windows, disposed, indexOf(windows, w))
  IN  /\ wop' = [op |-> "removeWindow", win |-> w, forced |-> FALSE]
      /\ windows' = d.windows
      /\ disposed' = d.disposed
      /\ reported' = d.reported
      /\ UNCHANGED <<active, children, notWindows>>

RemoveWindow == \E w \in Wins : removeWindow(w)

\* terminate()
terminate ==
  LET d == disposeAllWindows(windows, disposed)
  IN  /\ wop' = [op |-> "terminate", win |-> 0, forced |-> FALSE]
      /\ windows' = d.windows
      /\ disposed' = d.disposed
      /\ reported' = d.reported
      /\ UNCHANGED <<active, children, notWindows>>

NextWindows ==
  \/ start
  \/ stop
  \/ AddWindow
  \/ RemoveWindow
  \/ terminate

SpecWindows == Init /\ [][NextWindows]_vars

\* ---------------------------------------------------------- properties
\* C8: after terminate() every window that was in the owned list has been
\* disposed and the owned list is empty.
C8_TerminateDisposesAll ==
  [][(wop'.op = "terminate") =>
       /\ windows' = <<>>
       /\ \A w \in SeqToSet(windows) : w \in disposed']_vars

\* C9: removeWindow of a window that is not in the owned list reports an
\* error and changes neither the list nor any window; removeWindow of an owned
\* window disposes that window and takes it, and only it, out of the list.
C9_RemoveWindow ==
  [][(wop'.op = "removeWindow") =>
       LET w == wop'.win
       IN  IF ~IsIn(w, windows)
             THEN /\ reported'
                  /\ windows' = windows
                  /\ disposed' = disposed
                  /\ children' = children
             ELSE /\ ~reported'
                  /\ disposed' = disposed \cup {w}
                  /\ Len(windows') = Len(windows) - 1
                  /\ \E k \in 1 .. Len(windows) :
                        windows[k] = w /\ windows' = RemoveAt(windows, k)]_vars

\* a second removeWindow of the same window has been reported
C9_Witness ==
  /\ wop.op = "removeWindow"
  /\ reported
  /\ wop.win \in disposed
  /\ windows # <<>>

notOverlay == <<gvars, fvars, cvars, pvars, active, windows, children, disposed, reported,
                alwaysActive, tickLog>>

\* the history of raiseOverlay is kept until the next handler runs
NoSnapshot == [active |-> [o \in Objs |-> FALSE], z |-> [o \in Objs |-> 0]]

IsChild(o) == IsIn(o, children)

\* pause()
pause ==
  /\ lastActiveState' = [o \in Objs |->
        IF IsChild(o) /\ childActive[o] THEN TRUE ELSE lastActiveState[o]]
  /\ childActive' = deactivateChildren
  /\ wop' = [op |-> "pause", win |-> 0, forced |-> FALSE]
  /\ preRaise' = [NoSnapshot EXCEPT !.active = childActive]
  /\ UNCHANGED <<notOverlay, childShown, z, oriZ, overlay, dim>>

\* resume()
resume ==
  /\ childActive' = [o \in Objs |->
        IF IsChild(o) /\ lastActiveState[o] THEN TRUE ELSE childActive[o]]
  /\ wop' = [op |-> "resume", win |-> 0, forced |-> FALSE]
  /\ preRaise' = NoSnapshot
  /\ UNCHANGED <<notOverlay, lastActiveState, childShown, z, oriZ, overlay, dim>>

\* the siblings raiseOverlay(ovs) snapshots and deactivates
Muted(ovs, o) == IsChild(o) /\ ~alwaysActive[o] /\ o # ovs

\* raiseOverlay without the check of its argument
raiseOverlayUnchecked(ovs) ==
  /\ wop' = [op |-> "raiseOverlay", win |-> ovs, forced |-> FALSE]
  /\ preRaise' = [active |-> childActive, z |-> z]
  /\ overlay' = ovs
  /\ oriZ' = [o \in Objs |-> IF o = ovs THEN z[o] ELSE oriZ[o]]
  /\ z' = [o \in Objs |-> IF o = ovs THEN OverlayZ ELSE z[o]]
  /\ lastActiveState' = [o \in Objs |->
        IF Muted(ovs, o) THEN childActive[o] ELSE lastActiveState[o]]
  /\ childActive' = [o \in Objs |->
        IF o = ovs THEN TRUE ELSE IF Muted(ovs, o) THEN FALSE ELSE childActive[o]]
  /\ childShown' = [o \in Objs |-> IF o = ovs THEN TRUE ELSE childShown[o]]
  /\ dim' = TRUE
  /\ UNCHANGED notOverlay

\* raiseOverlay(ovs); ovs = 0 stands for a missing widget
raiseOverlay(ovs) ==
  /\ wop' = [op |-> "raiseOverlay", win |-> ovs, forced |-> FALSE]
  /\ preRaise' = [active |-> childActive, z |-> z]
  /\ IF ovs = 0
       THEN UNCHANGED <<childActive, lastActiveState, childShown, z, oriZ,
                        overlay, dim>>
       ELSE /\ overlay' = ovs
            /\ oriZ' = [o \in Objs |-> IF o = ovs THEN z[o] ELSE oriZ[o]]
            /\ z' = [o \in Objs |-> IF o = ovs THEN OverlayZ ELSE z[o]]
            /\ lastActiveState' = [o \in Objs |->
                  IF Muted(ovs, o) THEN childActive[o] ELSE lastActiveState[o]]
            /\ childActive' = [o \in Objs |->
                  IF o = ovs THEN TRUE
                  ELSE IF Muted(ovs, o) THEN FALSE ELSE childActive[o]]
            /\ childShown' = [o \in Objs |-> IF o = ovs THEN TRUE ELSE childShown[o]]
            /\ dim' = TRUE
  /\ UNCHANGED notOverlay

\* the scene raises one of its children, or is called without a widget
RaiseOverlay == \E ovs \in SeqToSet(children) \cup {0} : raiseOverlay(ovs)

\* closeOverlay()
closeOverlay ==
  /\ wop' = [op |-> "closeOverlay", win |-> overlay, forced |-> FALSE]
  /\ IF overlay = 0
       THEN UNCHANGED <<childActive, childShown, z, overlay, dim>>
       ELSE /\ childShown' = [childShown EXCEPT ![overlay] = FALSE]
            /\ childActive' = [o \in Objs |->
                  IF o = overlay THEN FALSE
                  ELSE IF IsChild(o) /\ lastActiveState[o] THEN TRUE
                  ELSE childActive[o]]
            /\ dim' = FALSE
            /\ z' = [z EXCEPT ![overlay] = oriZ[overlay]]
            /\ overlay' = 0
  /\ preRaise' = NoSnapshot
  /\ UNCHANGED <<notOverlay, lastActiveState, oriZ>>

\* the sprites a scene has rendered, in order
SpriteSeq == [i \in 1 .. NumSprites |-> NumWindows + i]

\* a started Scene_Base whose sprites are rendered; the widgets come with any
\* active flags and any always-active attributes
InitOverlay ==
  /\ sceneClass = "Scene_Base"
  /\ GameFields
  /\ active = TRUE
  /\ windows = <<>>
  /\ disposed = {}
  /\ reported = FALSE
  /\ wop = [op |-> "start", win |-> 0, forced |-> FALSE]
  /\ SceneFields
  /\ NoCall
  /\ children = SpriteSeq
  /\ childActive \in [Objs -> BOOLEAN]
  /\ alwaysActive \in [Objs -> BOOLEAN]

\* addWindow(win) of a window the scene does not own yet
AddNewWindow == \E w \in Wins : ~IsIn(w, windows) /\ addWindow(w, FALSE)

NextOverlay ==
  \/ AddNewWindow
  \/ RaiseOverlay
  \/ closeOverlay
  \/ pause
  \/ resume
  \/ preTerminate

SpecOverlay == InitOverlay /\ [][NextOverlay]_vars

NextTick ==
  \/ AddNewWindow
  \/ RaiseOverlay
  \/ closeOverlay
  \/ update

SpecTick == InitOverlay /\ [][NextTick]_vars

\* ======================================================================
\* Scene_Load and Scene_Intro: the frame, the button cooldown
\* ======================================================================

\* what the frames of Scene_Load and Scene_Intro leave alone
notFrame == <<gameRest, playerPhase, wvars, sceneClass, childActive,
              lastActiveState, childShown, z, oriZ, overlay, dim, alwaysActive,
              preRaise, pvars>>

\* cap on the frames of an intro explored
MaxIntroTimer == ENDmoment + FadeDefault

\* isButtonCooled(kid)
isButtonCooled(kid) == buttonCooldown[kid] = 0

\* the cooldown table after heatupButton(kid)
heatupButtonOf(cd, kid) == [cd EXCEPT ![kid] = Cooldown]

\* heatupButton(kid), called on the current scene
heatupButton(kid) ==
  /\ buttonCooldown' = heatupButtonOf(buttonCooldown, kid)
  /\ frameLog' = [op |-> "heatupButton", key |-> kid, click |-> FALSE,
                  phase |-> frameLog.phase, since |-> frameLog.since]
  /\ UNCHANGED <<notFrame, fadingTimer, fadeSign, opacity, fadeLog, tickLog,
                 introTimer, requestFilterUpdate, ready, allLoaded, loading_timer,
                 gotoLog>>

HeatupButton == \E kid \in Keys : heatupButton(kid)

\* Scene_Load.updateButtonCooldown(): the cooldown table it leaves
updateButtonCooldown(cd) == [k \in Keys |-> IF cd[k] > 0 THEN cd[k] - 1 ELSE cd[k]]

\* Graphics or Sound reports ready
AssetsReady ==
  /\ sceneClass = "Scene_Load"
  /\ \E which \in {"gr", "sr"} :
        /\ ~ready[which]
        /\ ready' = [ready EXCEPT ![which] = TRUE]
  /\ frameLog' = [op |-> "ready", key |-> 0, click |-> FALSE,
                  phase |-> frameLog.phase, since |-> frameLog.since]
  /\ UNCHANGED <<notFrame, fadingTimer, fadeSign, opacity, fadeLog, tickLog,
                 buttonCooldown, introTimer, requestFilterUpdate, allLoaded,
                 loading_timer, gotoLog>>

\* Scene_Load.update() whose processLoadingComplete leaves loading_timer alone
updateLoadRepeating ==
  LET f      == updateFadingOf(FadeNow)
      all    == allLoaded \/ (ready.gr /\ ready.sr)
      t1     == IF all /\ loading_timer < LoadDelay THEN loading_timer + 1
                ELSE loading_timer
      finish == all /\ t1 = LoadDelay
  IN  /\ sceneClass = "Scene_Load"
      /\ SetFade(f)
      /\ tickLog' = [seen |-> f.timer, updated |-> updateChildren]
      /\ allLoaded' = all
      /\ loading_timer' = t1
      /\ gotoLog' = IF finish THEN Append(gotoLog, "Scene_Intro") ELSE gotoLog
      /\ buttonCooldown' = updateButtonCooldown(buttonCooldown)
      /\ frameLog' = [op |-> "update", key |-> 0, click |-> FALSE,
                      phase |-> 1 - frameLog.phase,
                      since |-> IF ~(ready.gr /\ ready.sr) THEN 0
                                ELSE IF frameLog.since > LoadDelay THEN frameLog.since
                                ELSE frameLog.since + 1]
      /\ UNCHANGED <<notFrame, introTimer, requestFilterUpdate, ready>>

\* Scene_Load.update(): super.update(), updateLoading(), updateButtonCooldown()
updateLoad ==
  LET f      == updateFadingOf(FadeNow)
      all    == allLoaded \/ (ready.gr /\ ready.sr)
      t1     == IF all /\ loading_timer < LoadDelay THEN loading_timer + 1
                ELSE loading_timer
      finish == all /\ t1 = LoadDelay
  IN  /\ sceneClass = "Scene_Load"
      /\ SetFade(f)
      /\ tickLog' = [seen |-> f.timer, updated |-> updateChildren]
      /\ allLoaded' = all
      /\ loading_timer' = IF finish THEN LoadDone ELSE t1
      /\ gotoLog' = IF finish THEN Append(gotoLog, "Scene_Intro") ELSE gotoLog
      /\ buttonCooldown' = updateButtonCooldown(buttonCooldown)
      /\ frameLog' = [op |-> "update", key |-> 0, click |-> FALSE,
                      phase |-> 1 - frameLog.phase,
                      since |-> IF ~(ready.gr /\ ready.sr) THEN 0
                                ELSE IF frameLog.since > LoadDelay THEN frameLog.since
                                ELSE frameLog.since + 1]
      /\ UNCHANGED <<notFrame, introTimer, requestFilterUpdate, ready>>

\* Scene_Intro.updateSplashStage(): the fade it leaves at timer value t
updateSplashStage(f, t) ==
  IF t = NTOUmoment THEN startFadeOutOf(0)
  ELSE IF t = NTOUmoment + fadeDuration THEN startFadeInOf(0)
  ELSE IF t = ENDmoment THEN startFadeOutOf(0)
  ELSE f

\* updateSkip that jumps onto the next trigger instead of one frame before it
updateSkipOnto(t) ==
  IF t < NTOUmoment THEN NTOUmoment
  ELSE IF t < NTOUmoment + fadeDuration THEN NTOUmoment + fadeDuration
  ELSE IF t < ENDmoment THEN ENDmoment
  ELSE t

\* Scene_Intro.updateSkip(): the timer it leaves after a click at timer value t
updateSkip(t) ==
  IF t < NTOUmoment THEN NTOUmoment - 1
  ELSE IF t < NTOUmoment + fadeDuration THEN NTOUmoment + fadeDuration - 1
  ELSE IF t < ENDmoment THEN ENDmoment - 1
  ELSE t

\* Scene_Intro.update() in a frame where Input.isTriggered(kMOUSE1) is `click`
updateIntro(click) ==
  LET t1 == introTimer + 1
      f  == updateSplashStage(updateFadingOf(FadeNow), t1)
  IN  /\ sceneClass = "Scene_Intro"
      /\ introTimer < MaxIntroTimer
      /\ SetFade(f)
      /\ tickLog' = [seen |-> updateFadingOf(FadeNow).timer, updated |-> updateChildren]
      /\ requestFilterUpdate' =
            (requestFilterUpdate \/ t1 = NTOUmoment + fadeDuration + 60)
      /\ gotoLog' = IF t1 = ENDmoment THEN Append(gotoLog, "Scene_Title") ELSE gotoLog
      /\ buttonCooldown' = IF click THEN heatupButtonOf(buttonCooldown, kMOUSE1)
                           ELSE buttonCooldown
      /\ introTimer' = IF click THEN updateSkip(t1) ELSE t1
      /\ frameLog' = [op |-> "update", key |-> kMOUSE1, click |-> click,
                      phase |-> 1 - frameLog.phase, since |-> frameLog.since]
      /\ UNCHANGED <<notFrame, ready, allLoaded, loading_timer>>

UpdateIntro == \E click \in BOOLEAN : updateIntro(click)

\* a started Scene_Load or Scene_Intro
InitFrames ==
  /\ sceneClass \in {"Scene_Load", "Scene_Intro"}
  /\ GameFields
  /\ active = TRUE
  /\ windows = <<>>
  /\ disposed = {}
  /\ reported = FALSE
  /\ wop = [op |-> "start", win |-> 0, forced |-> FALSE]
  /\ SceneFields
  /\ NoCall
  /\ children = <<>>
  /\ childActive = [o \in Objs |-> FALSE]
  /\ alwaysActive = [o \in Objs |-> FALSE]

NextFrames ==
  \/ HeatupButton
  \/ AssetsReady
  \/ updateLoad
  \/ UpdateIntro

SpecFrames == InitFrames /\ [][NextFrames]_vars

\* a step of Scene_Intro.update(): the only handler that moves the timer
IntroFrame ==
  /\ sceneClass = "Scene_Intro"
  /\ introTimer < MaxIntroTimer
  /\ introTimer' \in (introTimer + 1) .. MaxIntroTimer

\* the host calls update() of the current scene on every frame, so the
\* update() of a running intro is not put off for ever
SpecFramesLive == SpecFrames /\ WF_introTimer(IntroFrame)

\* ======================================================================
\* Properties of the fade (Scene_Base)
\* ======================================================================
FracLess(a, b) == a[1] * b[2] < b[1] * a[2]

FadeTarget == IF fadeSign > 0 THEN Zero ELSE One

FadeStarted == fadeLog.dur > 0

\* an update() tick that advances a running fade
FadeTick == fadingTimer > 0 /\ fadeLog'.ticks = fadeLog.ticks + 1

\* C12: Scene_Base.isBusy() is true exactly while the fade timer is nonzero;
\* a fade of duration d > 0 keeps it true for exactly d update() ticks, the
\* completion hook runs once, on the d-th tick, and afterwards isBusy() is
\* false and further ticks leave the fade state unchanged.
C12_BusyForExactlyDTicks ==
  /\ [](isBusyBase <=> fadingTimer # 0)
  /\ [](FadeStarted =>
          /\ fadeLog.ticks < fadeLog.dur =>
                (isBusyBase /\ fadeLog.hooks = 0
                   /\ fadingTimer = fadeLog.dur - fadeLog.ticks)
          /\ fadeLog.ticks >= fadeLog.dur =>
                (~isBusyBase /\ fadeLog.hooks = 1 /\ fadeLog.hookAt = fadeLog.dur))
  /\ [][(fadingTimer = 0 /\ fadingTimer' = 0) =>
          (fadeSign' = fadeSign /\ opacity' = opacity
             /\ fadeLog'.hooks = fadeLog.hooks /\ fadeLog'.hookAt = fadeLog.hookAt)]_vars

\* an explicit fade of several ticks has completed and a further tick has passed
C12_Witness ==
  /\ fadeLog.dur >= 2 /\ fadeLog.dur # FadeDefault
  /\ fadeLog.ticks > fadeLog.dur
  /\ fadeLog.hooks = 1

\* C13: on every tick of a fade the opacity moves toward its target, and on
\* the tick at which the timer reaches 0 it equals the target exactly.
C13_OpacityMonotoneToTarget ==
  [][FadeTick =>
       /\ IF fadeSign > 0 THEN FracLess(opacity', opacity)
                          ELSE FracLess(opacity, opacity')
       /\ FracLeq(Zero, opacity') /\ FracLeq(opacity', One)
       /\ (fadingTimer' = 0) => (opacity' = FadeTarget)]_vars

\* a fade-out of several ticks has ended at full opacity
C13_Witness ==
  /\ fadeSign = -1 /\ fadeLog.dur >= 3
  /\ fadeLog.hooks = 1 /\ fadingTimer = 0
  /\ opacity = One

\* C14 (as stated): within a fade of duration d >= 3 the per-tick change of
\* opacity is not the same on every tick.
C14_StepsDiffer ==
  (fadeLog.dur >= 3 /\ fadeLog.ticks >= fadeLog.dur) =>
     Cardinality(fadeLog.steps) > 1

\* C14 (amended): the update rule opacity += (target - opacity) / timer
\* changes the opacity by the same amount, 1/d of the range, on every tick of
\* a fade of duration d: the ramp is linear.
C14_StepsEqual ==
  FadeStarted =>
     /\ fadeLog.steps \subseteq
           {IF fadeSign > 0 THEN Frac(-1, fadeLog.dur) ELSE Frac(1, fadeLog.dur)}
     /\ fadeLog.ticks <= fadeLog.dur =>
           opacity = IF fadeSign > 0
                       THEN Frac(fadeLog.dur - fadeLog.ticks, fadeLog.dur)
                       ELSE Frac(fadeLog.ticks, fadeLog.dur)

\* a fade-in of at least three ticks is past its second tick
C14_Witness ==
  /\ fadeSign = 1 /\ fadeLog.dur >= 3
  /\ fadeLog.ticks >= 2
  /\ fadeLog.steps # {}

\* ======================================================================
\* Properties of teardown, overlay and update (Scene_Base)
\* ======================================================================

\* C11: immediately after preTerminate() the scene is busy with a fade-out
\* and every child is inactive, whatever was active and whichever overlay was
\* raised before.
C11_PreTerminateQuiets ==
  (wop.op = "preTerminate") =>
     /\ isBusyBase
     /\ fadeSign = -1
     /\ \A c \in Objs : IsChild(c) => ~childActive[c]

\* preTerminate has run on a scene with a raised overlay and an always-active
\* sibling
C11_Witness ==
  /\ wop.op = "preTerminate"
  /\ overlay # 0
  /\ \E c \in Objs : IsChild(c) /\ c # overlay /\ alwaysActive[c]

\* C15: while the scene has an overlay, at most one raised widget is active
\* and every child other than the overlay that is not always-active is
\* inactive.
C15_OverlayMutesSiblings ==
  (overlay # 0) =>
     /\ Cardinality({o \in Objs : z[o] = OverlayZ /\ childActive[o]}) <= 1
     /\ \A c \in Objs :
          (IsChild(c) /\ c # overlay /\ ~alwaysActive[c]) => ~childActive[c]

\* C16: raiseOverlay(w) of a child w followed at once by closeOverlay() leaves
\* every sibling's active flag and every widget's z as before the raise.
C16_OverlayRoundTrip ==
  [][(wop.op = "raiseOverlay" /\ wop.win # 0 /\ wop'.op = "closeOverlay") =>
       /\ \A o \in Objs :
            (IsChild(o) /\ o # wop.win) => (childActive'[o] = preRaise.active[o])
       /\ \A o \in Objs : z'[o] = preRaise.z[o]]_vars

\* C17: closeOverlay() with no overlay raised and raiseOverlay() without a
\* widget change nothing: overlay, active flags, snapshots, z and the dim
\* layer stay as they are.
C17_OverlayNoOps ==
  [][(\/ (wop'.op = "closeOverlay" /\ overlay = 0)
      \/ (wop'.op = "raiseOverlay" /\ wop'.win = 0)) =>
       UNCHANGED <<overlay, childActive, lastActiveState, childShown, z, oriZ, dim>>]_vars

\* raiseOverlay() without a widget was called while an overlay was up and a
\* sibling was active
C17_Witness ==
  /\ wop.op = "raiseOverlay" /\ wop.win = 0
  /\ overlay # 0
  /\ \E c \in Objs : IsChild(c) /\ c # overlay /\ childActive[c]

\* C18: on an update() tick with an overlay, exactly the overlay and the
\* always-active children receive update(); without an overlay every child
\* receives it once, after the fade has been advanced.
C18_UpdateIsolation ==
  (wop.op = "update") =>
     IF overlay # 0
       THEN SeqToSet(tickLog.updated) =
               {c \in Objs : IsChild(c) /\ (c = overlay \/ alwaysActive[c])}
       ELSE /\ tickLog.updated = SelectSeq(children, LAMBDA c : hasUpdate(c))
            /\ tickLog.seen = fadingTimer

\* ======================================================================
\* Properties of the button cooldown
\* ======================================================================

\* an update() frame of the scene: the frame phase of the history flips
Frame == frameLog'.op = "update" /\ frameLog'.phase # frameLog.phase

\* C19: a trigger of the skip key while its cooldown counter is nonzero does
\* not perform the skip: the intro timer only takes its per-frame step.
C19_SkipOnlyWhenCooled ==
  [][(/\ sceneClass = "Scene_Intro"
      /\ Frame /\ frameLog'.click
      /\ ~isButtonCooled(kMOUSE1)) =>
       introTimer' = introTimer + 1]_vars

\* C20: in every scene the cooldown counter of a heated key goes down by one
\* on each update() frame until it is zero, and stays within 0 .. Cooldown.
C20_CooldownCountsDown ==
  /\ [](\A k \in Keys : buttonCooldown[k] \in 0 .. Cooldown)
  /\ [][Frame =>
          \A k \in Keys :
             (buttonCooldown[k] > 0 /\ ~(frameLog'.click /\ k = frameLog'.key)) =>
                buttonCooldown'[k] = buttonCooldown[k] - 1]_vars

\* ======================================================================
\* Properties of the scene lifecycle
\* ======================================================================

\* C21: the lifecycle is linear: when stop() (or terminate()) was the last
\* lifecycle call and the scene is not active, the next lifecycle call on
\* the same instance does not make isActive() true again.
C21_NoRestartAfterStop ==
  [][(wop.op \in {"stop", "terminate", "preTerminate"} /\ ~active) => ~active']_vars

\* ======================================================================
\* getCardImage and the layout arithmetic of arrangeHandCards, on their own
\* ======================================================================
\* Color and Value are enumerations of the rule engine.  A colour is modelled
\* by its name; a value by its number: 0 .. 9 are the number cards and
\* 10 .. 18 the action cards, in the order of the switch of getCardImage.
ColorSymbol ==
  [RED |-> "Red", BLUE |-> "Blue", YELLOW |-> "Yellow", GREEN |-> "Green",
   WILD |-> "Wild"]

Colors == DOMAIN ColorSymbol

ValueSymbol ==
  <<"Reverse", "Ban", "Plus2", "Plus4", "Wild", "Exchange", "Hit", "Discard",
    "Chaos">>

NumberValues == 0 .. 9

ActionValues == 10 .. (9 + Len(ValueSymbol))

\* getCardImage(card): the name of the texture, or the error of the first
\* switch.  The second switch has a default that appends the value as it is.
getCardImage(card) ==
  IF card.color \notin Colors
    THEN [fn |-> "getCardImage", err |-> TRUE, symbol |-> <<>>]
    ELSE LET v == IF card.value \in ActionValues
                    THEN ValueSymbol[card.value - 9]
                    ELSE ToString(card.value)
             suffix == IF card.value > 9 /\ card.numID > 0
                         THEN <<"_", ToString(card.numID + 1)>>
                         ELSE <<>>
         IN  [fn |-> "getCardImage", err |-> FALSE,
              symbol |-> <<ColorSymbol[card.color], v>> \o suffix]

\* createHandCanvas: every hand canvas is sw x sh; the canvases of the left
\* and right seats are resized to sh x sw
handCanvas(index) ==
  IF index % 2 = 0 THEN [width |-> sw, height |-> sh]
  ELSE [width |-> sh, height |-> sw]

\* arrangeHandCards: the extent of the canvas along the stacking axis
canvasWidth(index) ==
  IF index % 2 = 0 THEN handCanvas(index).width ELSE handCanvas(index).height

FracMul(a, b) == Frac(a[1] * b[1], a[2] * b[2])

\* Number.toFixed(3) of a fraction that is not negative: the nearest multiple
\* of 1/1000, the larger one of two that are equally near
toFixed3(x) == Frac((2000 * x[1] + x[2]) \div (2 * x[2]), 1000)

\* arrangeHandCards: cardSize is the number of cards of the hand, cardWidth
\* the width of a card
stackPortion(cardSize, span, cardWidth) ==
  toFixed3(Frac(span - cardWidth, cardSize * cardWidth))

totalWidth(cardSize, span, cardWidth) ==
  FracAdd(Frac(cardWidth, 1),
          FracMul(FracMul(Frac(cardWidth, 1), stackPortion(cardSize, span, cardWidth)),
                  Frac(cardSize - 1, 1)))

\* base_pos that leaves the whole slack on the near side
base_posUncentred(cardSize, span, cardWidth) ==
  FracSub(Frac(span, 1), totalWidth(cardSize, span, cardWidth))

base_pos(cardSize, span, cardWidth) ==
  FracDiv(FracSub(Frac(span, 1), totalWidth(cardSize, span, cardWidth)), 2)

\* the target of card i (from 0) along the stacking axis: dx of the seats
\* above and below, dy of the seats left and right
stackTarget(cardSize, span, cardWidth, i) ==
  FracAdd(FracAdd(base_pos(cardSize, span, cardWidth),
                  FracMul(FracMul(Frac(cardWidth, 1),
                                  stackPortion(cardSize, span, cardWidth)),
                          Frac(i, 1))),
          Frac(cardWidth, 2))

\* the layout arrangeHandCards(index) computes for a hand of cardSize cards
handLayout(index, cardSize, cardWidth) ==
  LET span == canvasWidth(index)
  IN  [fn |-> "arrangeHandCards",
       stackPortion |-> stackPortion(cardSize, span, cardWidth),
       totalWidth   |-> totalWidth(cardSize, span, cardWidth),
       base_pos     |-> base_pos(cardSize, span, cardWidth),
       targets      |-> [i \in 1 .. cardSize |->
                           stackTarget(cardSize, span, cardWidth, i - 1)]]

\* the cards handed to getCardImage: every colour and one that is none, every
\* value and the numbers next to them
CardsTried ==
  [color : Colors \cup {"NONE"}, value : (-1) .. MaxValue, numID : 0 .. MaxNumID]

\* the hands laid out: the width of a card is a property of the card texture
CardWidths == {50, 349}

HandsTried ==
  [index : Seats, cardSize : 1 .. MaxHand, cardWidth : CardWidths]

InitPure ==
  /\ sceneClass = "Scene_Game"
  /\ GameFields
  /\ WindowFields
  /\ SceneFields
  /\ children = <<>>
  /\ childActive = [o \in Objs |-> FALSE]
  /\ alwaysActive = [o \in Objs |-> FALSE]
  /\ \/ \E c \in CardsTried : call = [fn |-> "getCardImage", card |-> c]
     \/ \E h \in HandsTried : call = [fn |-> "arrangeHandCards", hand |-> h]
  /\ ret = [fn |-> "none"]

notPure == <<gvars, wvars, fvars, ovars, cvars>>

GetCardImage ==
  /\ call.fn = "getCardImage"
  /\ ret.fn = "none"
  /\ ret' = getCardImage(call.card)
  /\ UNCHANGED <<call, notPure>>

LayoutHand ==
  /\ call.fn = "arrangeHandCards"
  /\ ret.fn = "none"
  /\ ret' = handLayout(call.hand.index, call.hand.cardSize, call.hand.cardWidth)
  /\ UNCHANGED <<call, notPure>>

NextPure ==
  \/ GetCardImage
  \/ LayoutHand

SpecPure == InitPure /\ [][NextPure]_vars

\* C22: getCardImage raises an error exactly for the cards whose colour or
\* whose value is not a recognised one, and returns for every other card.
C22_ImageErrorIffUnrecognised ==
  ret.fn = "getCardImage" =>
    (ret.err <=> (call.card.color \notin Colors
                  \/ call.card.value \notin (NumberValues \cup ActionValues)))

\* C23: arrangeHandCards targets card i of a hand of n cards at
\* basePosition + cardSize * overlapFraction * i + cardSize / 2 along the
\* stacking axis, where overlapFraction is (canvasSpan - cardSize) /
\* (cardSize * n) rounded to 3 decimals, totalStackWidth = cardSize +
\* cardSize * overlapFraction * (n - 1) and basePosition = (canvasSpan -
\* totalStackWidth) / 2; seat 0 with 3 cards of size 50 on the canvas of 350
\* gives 2, 250 and 50.
C23_HandTargets ==
  ret.fn = "arrangeHandCards" =>
    LET n    == call.hand.cardSize
        w    == call.hand.cardWidth
        span == IF call.hand.index % 2 = 0 THEN handCanvas(call.hand.index).width
                ELSE handCanvas(call.hand.index).height
        f    == ret.stackPortion
        wf   == <<w * f[1], f[2]>>
    IN  /\ 1000 % f[2] = 0
        /\ Abs(2000 * n * w * f[1] - 2000 * (span - w) * f[2]) <= n * w * f[2]
        /\ ret.totalWidth = FracAdd(<<w, 1>>, <<wf[1] * (n - 1), wf[2]>>)
        /\ FracAdd(ret.base_pos, ret.base_pos) = FracSub(<<span, 1>>, ret.totalWidth)
        /\ DOMAIN ret.targets = 1 .. n
        /\ \A i \in 0 .. (n - 1) :
              ret.targets[i + 1] =
                FracAdd(FracAdd(ret.base_pos, <<wf[1] * i, wf[2]>>), <<w, 2>>)
        /\ (call.hand.index = 0 /\ n = 3 /\ w = 50 /\ span = 350) =>
              /\ f = <<2, 1>>
              /\ ret.totalWidth = <<250, 1>>
              /\ ret.base_pos = <<50, 1>>

\* the hand of the example has been laid out
C23_Witness ==
  /\ ret.fn = "arrangeHandCards"
  /\ call.hand = [index |-> 0, cardSize |-> 3, cardWidth |-> 50]
  /\ ret.targets = <<<<75, 1>>, <<175, 1>>, <<275, 1>>>>

\* C26: for every hand of n >= 1 cards and every canvas at least as long as
\* a card, the extent of every card, from its centre - cardSize / 2 to its
\* centre + cardSize / 2, lies within the canvas, from 0 to canvasSpan, with
\* the overlap rounded to 3 decimals.
C26_StackInsideCanvas ==
  ret.fn = "arrangeHandCards" =>
    LET w    == call.hand.cardWidth
        span == canvasWidth(call.hand.index)
    IN  \A i \in DOMAIN ret.targets :
           /\ FracLeq(Zero, FracSub(ret.targets[i], <<w, 2>>))
           /\ FracLeq(FracAdd(ret.targets[i], <<w, 2>>), <<span, 1>>)

\* ======================================================================
\* Properties of the deferred callbacks of Scene_Game
\* ======================================================================

\* this step runs the draw timer at position k: processCardDrawAnimation
Dispatched(k) ==
  /\ timers[k].kind = "draw"
  /\ timers' = RemoveAt(timers, k)
  /\ animationCount' = animationCount + 1

TimerFired == Len(timers') < Len(timers)

\* preTerminate() or terminate() was the last handler of the scene
TornDown == wop.op \in {"preTerminate", "terminate"}

\* C25: a deferred callback (a staggered draw dispatch, the return of a
\* revealed card to the deck) that fires after preTerminate() / terminate()
\* does not change the state of the scene: the owner tags and positions of
\* the sprites, the pool, the cards' sprites, animationCount, the animations.
C25_CallbacksTolerateTeardown ==
  [][(TornDown /\ TimerFired) =>
        UNCHANGED <<spritePool, cardSprite, animationCount, anims>>]_vars

\* C28: from the onCardDraw call of a non-empty batch until the arrival
\* callback of its last card has run, Scene_Game.isBusy() is true in every
\* state, also before the first dispatch and between the arrival of one card
\* and the dispatch of the next.
C28_BusyDuringBatch ==
  \A b \in 1 .. Len(batches) : BatchLive(b) => isBusy

\* the callback of a reposition animation of seat p runs in this step
RepositionCompleted(p) ==
  \E k \in 1 .. Len(anims) :
     /\ anims[k].kind = "arrange"
     /\ anims[k].pid = p
     /\ anims' = RemoveAt(anims, k)

\* C27: lastHand is taken by the completion callback of the repositioning
\* animations: it keeps the old order while a reposition animation is in
\* flight and changes only in a step in which such an animation completes.
C27_SnapshotAtCompletion ==
  [][\A p \in Seats :
        lastHand'[p] # lastHand[p] => RepositionCompleted(p)]_vars

\* nothing is left to happen: every timer has fired, every animation has
\* completed or has been replaced
Quiescent == timers = <<>> /\ anims = <<>>

\* C29: when the events stop, every animation completes and every timer
\* fires, animationCount is back at 0 (and stays there, as nothing is left
\* that changes it), also after arrangeHandCards or onCardPlay has started an
\* animation on a sprite whose previous animation had not completed.
C29_CounterDrains == Quiescent => animationCount = 0

\* a new Scene_Game whose rule engine holds a card of an unknown colour
InitBadCard ==
  /\ sceneClass = "Scene_Game"
  /\ spritePool = createCardSpritePool
  /\ cardSprite = [c \in Cards |-> 0]
  /\ hand = [p \in Seats |-> <<>>]
  /\ lastHand = [p \in Seats |-> <<>>]
  /\ discarded = {}
  /\ animationCount = 0
  /\ anims = <<>>
  /\ timers = <<>>
  /\ fadingTimer = 0
  /\ playerPhase = FALSE
  /\ badCards = {NumCards}
  /\ discardPile = <<>>
  /\ batches = <<>>
  /\ WindowFields
  /\ SceneFields
  /\ NoCall
  /\ children = <<>>
  /\ childActive = [o \in Objs |-> FALSE]
  /\ alwaysActive = [o \in Objs |-> FALSE]

SpecBadCard == InitBadCard /\ [][NextGame]_vars

\* the arrival callback of the draw animation of card c runs in this step
DrawArrival(c) ==
  \E k \in 1 .. Len(anims) :
     /\ anims[k].kind = "draw"
     /\ anims[k].card = c
     /\ batches'[anims[k].batch].arrived = batches[anims[k].batch].arrived + 1

\* C30: when the arrival callback of a draw fails because getCardImage
\* raises the invalid-colour error, the counter has still been decremented
\* for that animation: the callback leaves animationCount one lower.
C30_DecrementDespiteError ==
  [][\A c \in badCards :
        DrawArrival(c) => animationCount' = animationCount - 1]_vars

\* ======================================================================
\* The discard pile of Scene_Game
\* ======================================================================

\* clearDiscardPile(): pops and hides the children of the pile until one is
\* left
clearDiscardPile ==
  LET popped == {discardPile[i] : i \in 2 .. Len(discardPile)}
  IN  /\ discardPile' = IF Len(discardPile) > 1 THEN <<discardPile[1]>>
                        ELSE discardPile
      /\ spritePool' = [s \in 1 .. Len(spritePool) |->
                          IF s \in popped
                            THEN [spritePool[s] EXCEPT !.visible = FALSE]
                            ELSE spritePool[s]]
      /\ UNCHANGED <<cardSprite, hand, lastHand, discarded, animationCount,
                     anims, timers, fadingTimer, playerPhase, badCards,
                     batches, notGame>>

NextPile ==
  \/ CardDrawOne
  \/ processCardDrawAnimation
  \/ AnimationComplete
  \/ onCardPlay
  \/ ArrangeHand
  \/ clearDiscardPile

SpecPile == Init /\ [][NextPile]_vars

\* this step is a clearDiscardPile() that takes sprites out of the pile
PileCleared ==
  /\ Len(discardPile) > 1
  /\ discardPile' = <<discardPile[1]>>
  /\ anims' = anims

\* C31: after clearDiscardPile() every sprite that was removed from the
\* discard pile is released to the pool: it is hidden and its owner tag is
\* -2, so that getIdleCardSprite can return it.
C31_ClearedSpritesReleased ==
  [][PileCleared =>
       \A i \in 2 .. Len(discardPile) :
          /\ ~spritePool'[discardPile[i]].visible
          /\ spritePool'[discardPile[i]].playerIndex = Unassigned]_vars

\* ======================================================================
\* Properties of pause / resume
\* ======================================================================

\* C32: pause() followed at once by resume() leaves every child's active
\* flag as it was before pause(); a child that was inactive before pause()
\* is inactive after resume(), also when an earlier pause() or
\* raiseOverlay() had recorded it as active.
C32_PauseResumeRoundTrip ==
  [][(wop.op = "pause" /\ wop'.op = "resume") =>
       \A o \in Objs : IsChild(o) => (childActive'[o] = preRaise.active[o])]_vars

\* ======================================================================
\* Properties of Scene_Intro and Scene_Load
\* ======================================================================

\* the timer values updateSplashStage compares the timer with
StageTriggers ==
  {NTOUmoment, NTOUmoment + fadeDuration, NTOUmoment + fadeDuration + 40,
   NTOUmoment + fadeDuration + 60, ENDmoment}

\* the fade-out, the fade-in and the end
MainTriggers == {NTOUmoment, NTOUmoment + fadeDuration, ENDmoment}

\* in this step the intro timer passes T, and updateSplashStage has seen T
PassedAt(T) ==
  (introTimer < T /\ introTimer' >= T) => (Frame /\ introTimer + 1 = T)

\* C33 (as stated): under every pattern of skip clicks the intro timer never
\* decreases and no stage trigger of updateSplashStage is jumped over.
C33_NoTriggerJumped ==
  [][/\ introTimer' >= introTimer
     /\ \A T \in StageTriggers : PassedAt(T)]_vars

\* C33 (amended): under every pattern of skip clicks the intro timer never
\* decreases; the fade-out at 150, the fade-in at 180 and the end at 500 are
\* not jumped over and each fire; SceneManager.goto(Scene_Title) is invoked
\* eventually and exactly once.  (The triggers at 220 and 240 can be jumped.)
C33_MainTriggersFire ==
  /\ [][/\ introTimer' >= introTimer
        /\ \A T \in MainTriggers : PassedAt(T)
        /\ (Frame /\ sceneClass = "Scene_Intro" /\ introTimer + 1 = NTOUmoment) =>
              (fadeSign' = -1 /\ fadingTimer' = FadeDefault)
        /\ (Frame /\ sceneClass = "Scene_Intro"
              /\ introTimer + 1 = NTOUmoment + fadeDuration) =>
              (fadeSign' = 1 /\ fadingTimer' = FadeDefault)
        /\ (Frame /\ sceneClass = "Scene_Intro" /\ introTimer + 1 = ENDmoment) =>
              (fadeSign' = -1 /\ gotoLog' = Append(gotoLog, "Scene_Title"))
        /\ (gotoLog' # gotoLog /\ sceneClass = "Scene_Intro") =>
              (Frame /\ introTimer + 1 = ENDmoment)]_vars
  /\ [](Len(gotoLog) <= 1)
  /\ (sceneClass = "Scene_Intro") => <>[](gotoLog = <<"Scene_Title">>)

\* the intro has ended after a skip that jumped the splash effect
C33_Witness ==
  /\ sceneClass = "Scene_Intro"
  /\ gotoLog = <<"Scene_Title">>
  /\ ~requestFilterUpdate
  /\ introTimer = ENDmoment

\* C34: in Scene_Load, processLoadingComplete (the transition to the next
\* scene) never runs before both graphics and sound have reported ready; it
\* runs on the 60th update() tick counted from the first tick that observes
\* both ready, and exactly once however many ticks follow; allLoaded, once
\* set, is never reset.
C34_LoadCompletesOnce ==
  /\ [][(sceneClass = "Scene_Load" /\ gotoLog' # gotoLog) =>
          (Frame /\ ready.gr /\ ready.sr /\ frameLog'.since = 60)]_vars
  /\ [][(sceneClass = "Scene_Load" /\ Frame /\ frameLog'.since = 60
           /\ frameLog.since = 59) =>
          (gotoLog' = Append(gotoLog, "Scene_Intro") /\ loading_timer' = LoadDone)]_vars
  /\ [](sceneClass = "Scene_Load" => Len(gotoLog) <= 1)
  /\ [][allLoaded => allLoaded']_vars

\* the loading has completed and further update() ticks have followed
C34_Witness ==
  /\ sceneClass = "Scene_Load"
  /\ gotoLog = <<"Scene_Intro">>
  /\ frameLog.since > 60
  /\ loading_timer = LoadDone
  /\ allLoaded

====
